---- MODULE Spec2Model ----
(***************************************************************************)
(* dicey: lexer, recursive-descent parser and tree-walking interpreter of  *)
(* arithmetic expressions with dice rolls.                                 *)
(*                                                                         *)
(* A source text is a sequence of characters; a character is a one-letter  *)
(* string, except the non-ASCII ones, which are written by code point:     *)
(*   "U+2212" (minus sign), "U+00F7" (division sign),                      *)
(*   "U+00D7" (multiplication sign), "U+202F" (narrow no-break space).     *)
(* Spans are byte ranges <<lo, hi>> (half open) as in the program.         *)
(*                                                                         *)
(* The numbers of the explored inputs stay far inside isize, so no         *)
(* arithmetic overflows; a panic is an outcome of the evaluation           *)
(* (division by zero, an empty sample range, unreachable!()).              *)
(***************************************************************************)
EXTENDS Integers, Sequences, FiniteSets, TLC

\* ------------------------------------------------------------------------
\* Bounds of the explored input space
\* ------------------------------------------------------------------------
\* longest arbitrary character string fed to the parser
MaxLen == 3
\* longest grammar sentence (in tokens) fed to parser and interpreter
MaxTokens == 5
\* number literals of the generated sentences are 0..MaxNum
MaxNum == 2
\* a run in which one Roll node throws more dice than this is not explored
MaxDice == 4

\* ------------------------------------------------------------------------
\* token.rs
\* ------------------------------------------------------------------------
DigitChars == <<"0", "1", "2", "3", "4", "5", "6", "7", "8", "9">>

IsDigit(c) == \E i \in DOMAIN DigitChars : DigitChars[i] = c

DigitValue(c) == (CHOOSE i \in DOMAIN DigitChars : DigitChars[i] = c) - 1

\* [ U+202F \r\t\n]+ is skipped
IsWhitespace(c) == c \in {"U+202F", " ", "\r", "\t", "\n"}

\* UTF-8 width of a character
ByteLen(c) ==
    CASE c \in {"U+2212", "U+202F"} -> 3
      [] c \in {"U+00F7", "U+00D7"} -> 2
      [] OTHER -> 1

RECURSIVE ByteOffset(_, _)
\* byte offset of the i-th character (1-based) of src; i = Len(src)+1 gives
\* the byte length of src
ByteOffset(src, i) ==
    IF i <= 1 THEN 0 ELSE ByteOffset(src, i - 1) + ByteLen(src[i - 1])

SourceLen(src) == ByteOffset(src, Len(src) + 1)

\* the token rules of TokenType that match one character
SingleCharType(c) ==
    CASE c = "(" -> "LeftParen"
      [] c = ")" -> "RightParen"
      [] c \in {"-", "U+2212"} -> "Minus"
      [] c = "+" -> "Plus"
      [] c = "/" -> "Slash"
      [] c = "U+00F7" -> "Division"
      [] c = "*" -> "Star"
      [] c \in {"x", "X", "U+00D7"} -> "Multiplication"
      [] c \in {"d", "D"} -> "Dice"
      [] OTHER -> "Error"

RECURSIVE SkipWhitespace(_, _)
SkipWhitespace(src, i) ==
    IF i <= Len(src) /\ IsWhitespace(src[i]) THEN SkipWhitespace(src, i + 1) ELSE i

RECURSIVE ScanDigits(_, _)
\* first position at or after i that holds no digit
ScanDigits(src, i) ==
    IF i <= Len(src) /\ IsDigit(src[i]) THEN ScanDigits(src, i + 1) ELSE i

\* a token that starts with a digit at `from`, the digits ending before e:
\* digits '.' digits* is a Float, digits alone a Number
LexNumber(src, from, e) ==
    IF e <= Len(src) /\ src[e] = "."
    THEN [ty |-> "Float", from |-> from, to |-> ScanDigits(src, e + 1)]
    ELSE [ty |-> "Number", from |-> from, to |-> e]

\* the token that starts at `from`, the first position that holds no blank
LexFrom(src, from) ==
    IF from > Len(src) THEN [ty |-> "None", from |-> from, to |-> from]
    ELSE IF IsDigit(src[from]) THEN LexNumber(src, from, ScanDigits(src, from))
    ELSE [ty |-> SingleCharType(src[from]), from |-> from, to |-> from + 1]

\* One step of the generated lexer from character position pos: the token
\* type ("None" at the end of the input), the characters [from, to) it
\* covers, and the position after it.
LexerNext(src, pos) == LexFrom(src, SkipWhitespace(src, pos))

\* the Token made of what the lexer returned, and the lexer's new position
TokenOf(src, n, len) ==
    IF n.ty # "None"
    THEN [tok |-> [ty |-> n.ty,
                   span |-> <<ByteOffset(src, n.from), ByteOffset(src, n.to)>>],
          pos |-> n.to]
    ELSE [tok |-> [ty |-> "EoF", span |-> <<IF len = 0 THEN 0 ELSE len - 1, len>>],
          pos |-> n.to]

\* Token::new_from_lexer: the next token and the lexer's new position
new_from_lexer(src, pos) == TokenOf(src, LexerNext(src, pos), SourceLen(src))

RECURSIVE CharsIn(_, _, _)
\* the characters of src from position i on that start inside the byte span
CharsIn(src, span, i) ==
    IF i > Len(src) THEN <<>>
    ELSE IF ByteOffset(src, i) >= span[1] /\ ByteOffset(src, i) < span[2]
         THEN <<src[i]>> \o CharsIn(src, span, i + 1)
         ELSE CharsIn(src, span, i + 1)

\* Token::lexeme
lexeme(src, tok) == CharsIn(src, tok.span, 1)

\* ------------------------------------------------------------------------
\* value.rs
\* ------------------------------------------------------------------------
\* Kind::Direct, Kind::Roll, Kind::Token
Direct(i) == [kind |-> "Direct", v |-> i]

RollGroup(items) == [kind |-> "Roll", items |-> items]

Glyph(s) == [kind |-> "Token", s |-> s]

\* Value::new
Value_new(inner, all) == [current |-> inner, all |-> all]

\* Value::direct
Value_direct(inner) == Value_new(inner, <<Direct(inner)>>)

Abs(a) == IF a < 0 THEN -a ELSE a

\* the quotient rounded toward minus infinity instead
FloorDiv(a, b) == IF b > 0 THEN a \div b ELSE (-a) \div (-b)

\* isize `/` for a non-zero divisor: the quotient truncated toward zero
TruncDiv(a, b) ==
    LET q == Abs(a) \div Abs(b) IN IF (a < 0) # (b < 0) THEN -q ELSE q

\* impl Add / Sub / Mul / Div / Neg for Value
add(self, rhs) ==
    Value_new(self.current + rhs.current, self.all \o <<Glyph("+")>> \o rhs.all)

sub(self, rhs) ==
    Value_new(self.current - rhs.current, self.all \o <<Glyph("-")>> \o rhs.all)

mul(self, rhs) ==
    Value_new(self.current * rhs.current, self.all \o <<Glyph("x")>> \o rhs.all)

\* `/` on isize panics when the divisor is zero
div_panics(self, rhs) == rhs.current = 0

div(self, rhs) ==
    Value_new(TruncDiv(self.current, rhs.current),
              self.all \o <<Glyph("U+00F7")>> \o rhs.all)

neg(self) == Value_direct(-self.current)

\* ------------------------------------------------------------------------
\* parser.rs
\* ------------------------------------------------------------------------
\* The parser state p is [lexer, previous, current]: the lexer's character
\* position and the two tokens of lookahead.  Every rule returns
\* [ok, expr, p] or [ok, err, p], p being the parser state it leaves.

\* the decimal digits of isize::MAX (2^63 - 1), the largest number that
\* str::parse::<isize> accepts
ISIZE_MAX_DIGITS ==
    <<"9", "2", "2", "3", "3", "7", "2", "0", "3", "6", "8", "5", "4", "7", "7",
      "5", "8", "0", "7">>

RECURSIVE StripZeros(_)
StripZeros(lex) ==
    IF Len(lex) > 1 /\ lex[1] = "0" THEN StripZeros(Tail(lex)) ELSE lex

RECURSIVE DigitsLeq(_, _)
\* a <= b for two digit strings of the same length
DigitsLeq(a, b) ==
    IF a = <<>> THEN TRUE
    ELSE IF DigitValue(a[1]) # DigitValue(b[1]) THEN DigitValue(a[1]) < DigitValue(b[1])
    ELSE DigitsLeq(Tail(a), Tail(b))

\* whether the digit string denotes a number within isize
FitsIsize(lex) ==
    LET d == StripZeros(lex) IN
    \/ Len(d) < Len(ISIZE_MAX_DIGITS)
    \/ Len(d) = Len(ISIZE_MAX_DIGITS) /\ DigitsLeq(d, ISIZE_MAX_DIGITS)

Literal(value) == [node |-> "Literal", value |-> value]

Unary(operator, right) == [node |-> "Unary", operator |-> operator, right |-> right]

Binary(left, operator, right) ==
    [node |-> "Binary", left |-> left, operator |-> operator, right |-> right]

Grouping(expression) == [node |-> "Grouping", expression |-> expression]

Roll(quantity, dice, faces) ==
    [node |-> "Roll", quantity |-> quantity, dice |-> dice, faces |-> faces]

Ok(expr, p) == [ok |-> TRUE, expr |-> expr, p |-> p]

Err(err, p) == [ok |-> FALSE, err |-> err, p |-> p]

\* the parser around the first token t
ParserWith(t) == [lexer |-> t.pos, previous |-> t.tok, current |-> t.tok]

\* Parser::new: one token is fetched; `previous` and `current` both hold it
Parser_new(src) == ParserWith(new_from_lexer(src, 1))

is_at_end(p) == p.current.ty = "EoF"

check(p, ty) == p.current.ty = ty

\* the parser after it shifted to the freshly fetched token t
Shifted(p, t) ==
    [tok |-> p.current,
     p |-> [lexer |-> t.pos, previous |-> p.current, current |-> t.tok]]

\* Parser::advance: the token returned and the parser state afterwards
advance(src, p) ==
    IF is_at_end(p) THEN [tok |-> p.current, p |-> p]
    ELSE Shifted(p, new_from_lexer(src, p.lexer))

\* Parser::is_followed_by over the list `types`
is_followed_by(src, p, types) ==
    IF \E i \in DOMAIN types : check(p, types[i])
    THEN [hit |-> TRUE, p |-> advance(src, p).p]
    ELSE [hit |-> FALSE, p |-> p]

\* Parser::expected_error; `rule` records the rule that raised it
expected_error(p, expected, found, rule) ==
    [what |-> "expected", expected |-> expected, found |-> found,
     span |-> p.previous.span, rule |-> rule]

\* Parser::consume
consume(src, p, expecting) ==
    IF check(p, expecting) THEN [ok |-> TRUE, p |-> advance(src, p).p]
    ELSE Err(expected_error(p, expecting, p.previous.ty, "consume"), p)

RECURSIVE ParseDigits(_, _)
\* decimal value of the first n characters of a digit string
ParseDigits(lex, n) ==
    IF n = 0 THEN 0 ELSE ParseDigits(lex, n - 1) * 10 + DigitValue(lex[n])

\* the literal of the digit string lex, or the error of str::parse
value_of(lex, p) ==
    IF FitsIsize(lex) THEN Ok(Literal(Value_direct(ParseDigits(lex, Len(lex)))), p)
    ELSE Err([what |-> "number", expected |-> "Number", found |-> "Number",
              span |-> p.previous.span, rule |-> "value"], p)

\* Parser::value: the literal of the number token in `previous`
value(src, p) == value_of(lexeme(src, p.previous), p)

\* the `?` operator: an Err is returned at once, an Ok continues with K
Try(r, K(_)) == IF ~r.ok THEN r ELSE K(r)

\* `while`/`if self.is_followed_by(..)?`: K runs on the parser that consumed
\* the operator, which is then in `previous`
WhenFollowed(f, otherwise, K(_)) == IF f.hit THEN K(f.p) ELSE otherwise

RECURSIVE expression(_, _), term(_, _), term_loop(_, _, _), factor(_, _),
          factor_loop(_, _, _), roll(_, _), roll_loop(_, _, _), unary(_, _),
          primary(_, _), primary_of(_, _)

\* the match of Parser::primary on the token `advance` returned
primary_of(src, a) ==
    CASE a.tok.ty = "Number" -> value(src, a.p)
      [] a.tok.ty = "LeftParen" ->
            Try(expression(src, a.p),
                LAMBDA e : Try(consume(src, e.p, "RightParen"),
                               LAMBDA c : Ok(Grouping(e.expr), c.p)))
      [] OTHER -> Err(expected_error(a.p, "Number", a.tok.ty, "primary"), a.p)

\* Parser::primary
primary(src, p) == primary_of(src, advance(src, p))

\* Parser::unary
unary(src, p) ==
    WhenFollowed(is_followed_by(src, p, <<"Minus">>),
                 primary(src, p),
                 LAMBDA q : Try(unary(src, q),
                                LAMBDA right : Ok(Unary(q.previous, right.expr), right.p)))

\* the while loop of Parser::roll around the accumulated expr
roll_loop(src, expr, p) ==
    WhenFollowed(is_followed_by(src, p, <<"Dice">>),
                 Ok(expr, p),
                 LAMBDA q : Try(unary(src, q),
                                LAMBDA faces :
                                    roll_loop(src, Roll(expr, q.previous, faces.expr),
                                              faces.p)))

\* Parser::roll
roll(src, p) == Try(unary(src, p), LAMBDA e : roll_loop(src, e.expr, e.p))

\* the while loop of Parser::factor
factor_loop(src, expr, p) ==
    WhenFollowed(is_followed_by(src, p, <<"Star", "Multiplication", "Slash", "Division">>),
                 Ok(expr, p),
                 LAMBDA q : Try(roll(src, q),
                                LAMBDA right :
                                    factor_loop(src, Binary(expr, q.previous, right.expr),
                                                right.p)))

\* Parser::factor
factor(src, p) == Try(roll(src, p), LAMBDA e : factor_loop(src, e.expr, e.p))

\* the while loop of Parser::term
term_loop(src, expr, p) ==
    WhenFollowed(is_followed_by(src, p, <<"Minus", "Plus">>),
                 Ok(expr, p),
                 LAMBDA q : Try(factor(src, q),
                                LAMBDA right :
                                    term_loop(src, Binary(expr, q.previous, right.expr),
                                              right.p)))

\* Parser::term
term(src, p) == Try(factor(src, p), LAMBDA e : term_loop(src, e.expr, e.p))

\* Parser::expression
expression(src, p) == term(src, p)

\* the descent alone, whatever follows the expression
parse_without_end_check(src, p) == expression(src, p)

\* the end-of-input test of Parser::parse on the parser the descent left
end_check(e) ==
    IF is_at_end(e.p) THEN e
    ELSE Err([what |-> "trailing", expected |-> "EoF", found |-> e.p.current.ty,
              span |-> e.p.current.span, rule |-> "parse"], e.p)

\* Parser::parse
parse(src, p) == Try(expression(src, p), LAMBDA e : end_check(e))

\* ------------------------------------------------------------------------
\* interpreter.rs
\* ------------------------------------------------------------------------
\* An evaluation ends in a Value or in a panic (InterpreterError has no
\* member).  The randomness source is free: Interp gives the set of all
\* outcomes, one per choice of the samples.  Next to its result an outcome
\* carries `log`, the Roll nodes in the order they threw their dice, each
\* with the node's position in the tree (the path of child indices from the
\* root), the evaluated quantity and faces, and the samples in draw order.

Val(v, log) == [status |-> "value", value |-> v, log |-> log]

Panic(why, log) == [status |-> "panic", why |-> why, log |-> log]

RECURSIVE SumSeq(_)
SumSeq(s) == IF s = <<>> THEN 0 ELSE s[1] + SumSeq(Tail(s))

RECURSIVE Intersperse(_, _)
\* Iterator::intersperse
Intersperse(s, sep) ==
    IF Len(s) <= 1 THEN s ELSE <<s[1], sep>> \o Intersperse(Tail(s), sep)

\* a sample range that starts at 0 instead
SampleRangeFromZero(faces) == 0 .. faces

\* the range gen_range samples for one die: 1..=faces
SampleRange(faces) == 1 .. faces

\* the dice of the inclusive range 0..=quantity instead: one more
DiceRangeInclusive(quantity) == 1 .. quantity + 1

\* the dice of one roll, numbered from 1: the range 0..quantity has
\* `quantity` members, none when quantity <= 0
DiceRange(quantity) == 1 .. quantity

\* the Unary arm's match on the operator's lexeme
UnaryOp(lex, right, log) ==
    IF lex = <<"-">> THEN Val(neg(right), log) ELSE Panic("unreachable", log)

\* the Binary arm's match on the operator's lexeme
BinaryOp(lex, left, right, log) ==
    CASE lex = <<"+">> -> Val(add(left, right), log)
      [] lex = <<"-">> -> Val(sub(left, right), log)
      [] lex \in {<<"*">>, <<"(">>} -> Val(mul(left, right), log)
      [] lex = <<"/">> ->
            IF div_panics(left, right) THEN Panic("divide by zero", log)
            ELSE Val(div(left, right), log)
      [] OTHER -> Panic("unreachable", log)

\* the Roll arm once quantity and faces are evaluated: every choice of the
\* samples (gen_range panics on an empty range)
RollDice(path, quantity, faces, log) ==
    IF DiceRange(quantity.current) = {} THEN
        {Val(Value_new(0, <<Direct(0), RollGroup(<<>>)>>),
             log \o <<[node |-> path, n |-> quantity.current, f |-> faces.current,
                       outs |-> <<>>]>>)}
    ELSE IF SampleRange(faces.current) = {} THEN {Panic("empty range", log)}
    ELSE IF quantity.current > MaxDice THEN {}
    ELSE {Val(Value_new(SumSeq(results),
                        <<Direct(SumSeq(results)),
                          RollGroup(Intersperse([i \in DOMAIN results |-> Direct(results[i])],
                                                Glyph("+")))>>),
              log \o <<[node |-> path, n |-> quantity.current, f |-> faces.current,
                        outs |-> results]>>) :
          results \in [DiceRange(quantity.current) -> SampleRange(faces.current)]}

\* the right operand evaluated first instead
EvalOrderReversed(left, right) == <<right, left>>

\* the order in which the tuple (left.interpret(..)?, right.interpret(..)?)
\* evaluates its two components: left to right
EvalOrder(left, right) == <<left, right>>

RECURSIVE Interp(_, _, _)

\* the Binary arm: the operands, each [x, i] an operand and its child index,
\* are evaluated in the order given; a panic ends the evaluation at once
BinaryArm(src, e, path, order) ==
    UNION {
      IF ra.status = "panic" THEN {ra}
      ELSE {IF rb.status = "panic" THEN Panic(rb.why, ra.log \o rb.log)
            ELSE BinaryOp(lexeme(src, e.operator),
                          IF order[1].i = 1 THEN ra.value ELSE rb.value,
                          IF order[1].i = 1 THEN rb.value ELSE ra.value,
                          ra.log \o rb.log) :
            rb \in Interp(src, order[2].x, path \o <<order[2].i>>)} :
      ra \in Interp(src, order[1].x, path \o <<order[1].i>>)}

\* Expr::interpret of the node e at position path
Interp(src, e, path) ==
    CASE e.node = "Unary" ->
            {IF r.status = "panic" THEN r
             ELSE UnaryOp(lexeme(src, e.operator), r.value, r.log) :
             r \in Interp(src, e.right, path \o <<1>>)}
      [] e.node = "Binary" ->
            BinaryArm(src, e, path,
                      EvalOrder([x |-> e.left, i |-> 1], [x |-> e.right, i |-> 2]))
      [] e.node = "Grouping" -> Interp(src, e.expression, path \o <<1>>)
      [] e.node = "Literal" -> {Val(e.value, <<>>)}
      [] e.node = "Roll" ->
            UNION {
              IF q.status = "panic" THEN {q}
              ELSE UNION {
                     IF f.status = "panic" THEN {Panic(f.why, q.log \o f.log)}
                     ELSE RollDice(path, q.value, f.value, q.log \o f.log) :
                     f \in Interp(src, e.faces, path \o <<2>>)} :
              q \in Interp(src, e.quantity, path \o <<1>>)}

\* ------------------------------------------------------------------------
\* The inputs
\* ------------------------------------------------------------------------
Alphabet ==
    {"0", "1", "2", ".", "a", " ", "(", ")", "-", "U+2212", "+", "/", "U+00F7",
     "*", "x", "d"}

RECURSIVE Strings(_)
\* every string over Alphabet of at most n characters
Strings(n) ==
    IF n = 0 THEN {<<>>}
    ELSE Strings(n - 1) \cup {Append(s, c) : s \in {t \in Strings(n - 1) : Len(t) = n - 1},
                                            c \in Alphabet}

NumChars == {DigitChars[n + 1] : n \in 0 .. MaxNum}

BinOpChars == {"+", "-", "*", "/", "d"}

RECURSIVE GenPrimary(_), GenUnary(_), GenExpr(_)
\* the sentences of `primary`, `unary` and `expression` of at most n tokens,
\* one character per token
GenPrimary(n) ==
    IF n < 1 THEN {}
    ELSE {<<c>> : c \in NumChars}
         \cup {<<"(">> \o e \o <<")">> : e \in GenExpr(n - 2)}

GenUnary(n) ==
    IF n < 1 THEN {}
    ELSE GenPrimary(n) \cup {<<"-">> \o u : u \in GenUnary(n - 1)}

GenExpr(n) ==
    IF n < 1 THEN {}
    ELSE GenUnary(n)
         \cup UNION {{l \o <<o>> \o r : l \in GenExpr(k), o \in BinOpChars,
                                       r \in GenUnary(n - 1 - k)} : k \in 1 .. n - 2}

\* the inputs the documentation and the tests name
Samples ==
    {<<"2", " ", "*", " ", "(", "3", " ", "+", " ", "2", ")">>,
     <<"5", " ", "-", " ", "(", "3", " ", "-", " ", "1", ")">>,
     <<"2", " ", "+", " ", "3", " ", "*", " ", "2">>,
     <<"2", " ", "+", " ", "(", "3", " ", "*", " ", "2", ")">>,
     <<"8", " ", "-", " ", "3", " ", "-", " ", "2">>,
     <<"-", "7", " ", "/", " ", "2">>,
     <<"(", "1", "+", "1", ")", "d", "(", "3", "*", "2", ")">>,
     <<"-", "1", "d", "6">>,
     <<"2", "d", "6", "*", "3">>,
     <<"2", "d", "6", "+", "1">>,
     <<"4", "0", "0", "0", ".", "5", "3", ".", "1", "0">>,
     <<"4", "0", "0", "a">>,
     <<"4", "0", "0", "0">>}

\* sentences with a roll on either side of a binary operator
RollPairs ==
    {<<"1", "d", "2", "+", "1", "d", "2">>,
     <<"2", "d", "2", "-", "1", "d", "2">>,
     <<"1", "d", "2", "*", "2", "d", "2">>,
     <<"2", "d", "2", "/", "1", "d", "2">>}

Sources == Strings(MaxLen) \cup GenExpr(MaxTokens) \cup Samples \cup RollPairs

\* ------------------------------------------------------------------------
\* The program: Interpreter::run_with_rng on one source text
\* ------------------------------------------------------------------------
VARIABLES
    source,     \* the input text
    pc,         \* "start", "constructed", "parsed", "parse_error", "done", "panicked"
    parser,     \* the Parser: [lexer, previous, current]
    parsed,     \* the result of Parser::parse: [ok, expr] or [ok, err]
    outcome     \* the result of Interpreter::interpret

vars == <<source, pc, parser, parsed, outcome>>

NoParser == [lexer |-> 0]

NoResult == [ok |-> FALSE, pending |-> TRUE]

NoOutcome == [status |-> "none"]

Init ==
    /\ source \in Sources
    /\ pc = "start"
    /\ parser = NoParser
    /\ parsed = NoResult
    /\ outcome = NoOutcome

\* Parser::new(source)
ParserNew ==
    /\ pc = "start"
    /\ parser' = Parser_new(source)
    /\ pc' = "constructed"
    /\ UNCHANGED <<source, parsed, outcome>>

\* parser.parse()
ParserParse ==
    /\ pc = "constructed"
    /\ \E r \in {parse(source, parser)} :
        /\ parser' = r.p
        /\ parsed' = IF r.ok THEN [ok |-> TRUE, expr |-> r.expr]
                     ELSE [ok |-> FALSE, err |-> r.err]
        /\ pc' = IF r.ok THEN "parsed" ELSE "parse_error"
    /\ UNCHANGED <<source, outcome>>

\* interpreter.interpret(&expr), the samples being any the source can give
Interpret ==
    /\ pc = "parsed"
    /\ \E o \in Interp(source, parsed.expr, <<>>) :
        /\ outcome' = o
        /\ pc' = IF o.status = "value" THEN "done" ELSE "panicked"
    /\ UNCHANGED <<source, parser, parsed>>

Next == ParserNew \/ ParserParse \/ Interpret

Spec == Init /\ [][Next]_vars

\* ------------------------------------------------------------------------
\* Reference notions the properties are stated with
\* ------------------------------------------------------------------------
RECURSIVE LexAll(_, _)

LexRest(src, n) ==
    IF n.ty = "None" THEN <<>>
    ELSE <<[ty |-> n.ty, lex |-> SubSeq(src, n.from, n.to - 1)]>> \o LexAll(src, n.to)

\* the token stream of src up to EoF, each token with its type and, for a
\* number, its lexeme
LexAll(src, pos) == LexRest(src, LexerNext(src, pos))

Tokens(src) == LexAll(src, 1)

Started == pc # "start"

Evaluated == pc \in {"done", "panicked"}

\* The grammar
\*   expression := term
\*   term       := factor ( ('+'|'-') factor )*
\*   factor     := roll ( ('*'|'/') roll )*
\*   roll       := unary ( 'd' unary )*
\*   unary      := '-' unary | primary
\*   primary    := Number | '(' expression ')'
\* as a recogniser of token sequences.
RECURSIVE IsTerm(_), IsFactor(_), IsRoll(_), IsUnary(_), IsPrimary(_)
IsPrimary(t) ==
    \/ Len(t) = 1 /\ t[1].ty = "Number" /\ FitsIsize(t[1].lex)
    \/ /\ Len(t) >= 3
       /\ t[1].ty = "LeftParen"
       /\ t[Len(t)].ty = "RightParen"
       /\ IsTerm(SubSeq(t, 2, Len(t) - 1))

IsUnary(t) ==
    /\ t # <<>>
    /\ \/ t[1].ty = "Minus" /\ IsUnary(Tail(t))
       \/ IsPrimary(t)

IsRoll(t) ==
    \/ IsUnary(t)
    \/ \E k \in 2 .. Len(t) - 1 :
          /\ t[k].ty = "Dice"
          /\ IsUnary(SubSeq(t, k + 1, Len(t)))
          /\ IsRoll(SubSeq(t, 1, k - 1))

IsFactor(t) ==
    \/ IsRoll(t)
    \/ \E k \in 2 .. Len(t) - 1 :
          /\ t[k].ty \in {"Star", "Multiplication", "Slash", "Division"}
          /\ IsRoll(SubSeq(t, k + 1, Len(t)))
          /\ IsFactor(SubSeq(t, 1, k - 1))

IsTerm(t) ==
    \/ IsFactor(t)
    \/ \E k \in 2 .. Len(t) - 1 :
          /\ t[k].ty \in {"Plus", "Minus"}
          /\ IsFactor(SubSeq(t, k + 1, Len(t)))
          /\ IsTerm(SubSeq(t, 1, k - 1))

IsSentence(src) == IsTerm(Tokens(src))

\* the quotient of a by b (b # 0) rounded toward zero: the remainder is
\* smaller than the divisor and has the sign of the dividend
RefQuotient(a, b) ==
    CHOOSE q \in -Abs(a) .. Abs(a) :
        \E r \in 1 - Abs(b) .. Abs(b) - 1 :
            /\ a = q * b + r
            /\ r = 0 \/ (r < 0) = (a < 0)

\* number of parentheses open before position i
ParenDepth(t, i) ==
    Cardinality({j \in 1 .. i - 1 : t[j].ty = "LeftParen"})
    - Cardinality({j \in 1 .. i - 1 : t[j].ty = "RightParen"})

\* positions of the binary operators of the given types outside parentheses
BinaryAt(t, types) ==
    {k \in 2 .. Len(t) - 1 :
        /\ t[k].ty \in types
        /\ t[k - 1].ty \in {"Number", "RightParen"}
        /\ ParenDepth(t, k) = 0}

Max(S) == CHOOSE m \in S : \A x \in S : x <= m

\* the value of `l op r`; [ok, v], ok being FALSE on a division by zero
RefCombine(op, l, r) ==
    IF ~l.ok \/ ~r.ok THEN [ok |-> FALSE, v |-> 0]
    ELSE CASE op = "Plus" -> [ok |-> TRUE, v |-> l.v + r.v]
           [] op = "Minus" -> [ok |-> TRUE, v |-> l.v - r.v]
           [] op = "Star" -> [ok |-> TRUE, v |-> l.v * r.v]
           [] op = "Slash" ->
                 IF r.v = 0 THEN [ok |-> FALSE, v |-> 0]
                 ELSE [ok |-> TRUE, v |-> RefQuotient(l.v, r.v)]

RefNegate(r) == [ok |-> r.ok, v |-> -r.v]

RECURSIVE RefEval(_)

\* the sentence split at its binary operator at position k
RefSplit(t, k) ==
    RefCombine(t[k].ty, RefEval(SubSeq(t, 1, k - 1)), RefEval(SubSeq(t, k + 1, Len(t))))

\* The reference evaluator of a dice-free sentence, given the positions of
\* its additive and multiplicative operators outside parentheses: the last
\* additive operator splits the sentence; failing that the last
\* multiplicative one; failing that it is a negation, a parenthesis or a
\* number.
RefEvalAt(t, adds, muls) ==
    IF adds # {} THEN RefSplit(t, Max(adds))
    ELSE IF muls # {} THEN RefSplit(t, Max(muls))
    ELSE IF t[1].ty = "Minus" THEN RefNegate(RefEval(Tail(t)))
    ELSE IF t[1].ty = "LeftParen" THEN RefEval(SubSeq(t, 2, Len(t) - 1))
    ELSE [ok |-> TRUE, v |-> ParseDigits(t[1].lex, Len(t[1].lex))]

RefEval(t) ==
    RefEvalAt(t, BinaryAt(t, {"Plus", "Minus"}), BinaryAt(t, {"Star", "Slash"}))

\* integer literals, unary minus, + - * /, parentheses and blanks only
ArithmeticChars ==
    {DigitChars[i] : i \in DOMAIN DigitChars} \cup {"+", "-", "*", "/", "(", ")", " "}

IsArithmetic(src) ==
    /\ \A i \in DOMAIN src : src[i] \in ArithmeticChars
    /\ IsSentence(src)

\* ------------------------------------------------------------------------
\* Properties
\* ------------------------------------------------------------------------

\* C4: a dice-free sentence (integer literals, unary minus, + - * /,
\* parentheses) always parses; when its evaluation divides by zero nowhere
\* the interpreter returns the value of the reference evaluator (* and /
\* bind tighter than + and -, equal precedence groups to the left,
\* parentheses override, / truncates toward zero); it panics only on a
\* division by zero.
AgreesWith(ref) ==
    /\ pc # "parse_error"
    /\ pc = "done" => ref.ok /\ outcome.value.current = ref.v
    /\ pc = "panicked" => ~ref.ok

C4_MatchesReference == IsArithmetic(source) => AgreesWith(RefEval(Tokens(source)))

C4_Witness ==
    /\ source = <<"-", "7", " ", "/", " ", "2">>
    /\ pc = "done"
    /\ outcome.value.current = -3

\* the span of a structured error lies inside the source text
WellFormedError(err) ==
    /\ err.what \in {"expected", "trailing", "number"}
    /\ 0 <= err.span[1]
    /\ err.span[1] <= err.span[2]
    /\ err.span[2] <= SourceLen(source)

\* C5: parse returns an Expr exactly when the token stream up to EoF is a
\* sentence of the grammar, and a structured ParserError otherwise (empty
\* input, an Error or Float token, an unmatched parenthesis, tokens left
\* after a complete expression).
C5_ParseExact ==
    pc \notin {"start", "constructed"} =>
        /\ parsed.ok <=> IsSentence(source)
        /\ parsed.ok <=> pc # "parse_error"
        /\ ~parsed.ok => WellFormedError(parsed.err)

C5_Witness ==
    /\ pc = "parse_error"
    /\ source = <<"4", "0", "0", "a">>
    /\ parsed.err.what = "trailing"

\* the provenance with every Roll group dropped: each roll then counts
\* through the Direct total that precedes its group
Reduced(all) == SelectSeq(all, LAMBDA k : k.kind # "Roll")

OperatorsAt(flat, glyphs) ==
    {k \in 2 .. Len(flat) - 1 : flat[k].kind = "Token" /\ flat[k].s \in glyphs}

\* the operation an operator glyph of a provenance stands for
GlyphOp(g) ==
    CASE g = "+" -> "Plus"
      [] g = "-" -> "Minus"
      [] g = "x" -> "Star"
      [] g = "U+00F7" -> "Slash"

RECURSIVE EvalFlat(_)

FlatSplit(flat, k) ==
    RefCombine(GlyphOp(flat[k].s), EvalFlat(SubSeq(flat, 1, k - 1)),
               EvalFlat(SubSeq(flat, k + 1, Len(flat))))

EvalFlatAt(flat, adds, muls) ==
    IF adds # {} THEN FlatSplit(flat, Max(adds))
    ELSE IF muls # {} THEN FlatSplit(flat, Max(muls))
    ELSE IF Len(flat) = 1 /\ flat[1].kind = "Direct" THEN [ok |-> TRUE, v |-> flat[1].v]
    ELSE [ok |-> FALSE, v |-> 0]

\* arithmetic value of operands and operator glyphs read as an expression
\* with the usual precedence: [ok, v], ok being FALSE when the sequence is
\* no expression or divides by zero
EvalFlat(flat) ==
    EvalFlatAt(flat, OperatorsAt(flat, {"+", "-"}), OperatorsAt(flat, {"x", "U+00F7"}))

ProvenanceGives(r, current) == r.ok /\ r.v = current

\* C1: the `current` of every Value the interpreter returns equals the
\* arithmetic evaluation of its provenance read as an expression (Direct
\* entries operands, Token entries operators with the usual precedence,
\* each roll counted once through its total), also after Grouping.
C1_CurrentIsProvenance ==
    pc = "done" =>
        ProvenanceGives(EvalFlat(Reduced(outcome.value.all)), outcome.value.current)

\* the canonical spelling of an operator character
Canonical(c) ==
    CASE c = "U+2212" -> "-"
      [] c = "U+00F7" -> "/"
      [] c \in {"x", "X", "U+00D7"} -> "*"
      [] OTHER -> c

Canon(src) == [i \in DOMAIN src |-> Canonical(src[i])]

\* C2: an operator and its aliases are interchangeable: the source and the
\* source with every operator in its canonical spelling have the same parse
\* outcome and, evaluated with the same samples, the same `current`.
SameAsCanonical(src, canon) ==
    /\ pc \notin {"start", "constructed"} => (parsed.ok <=> canon.ok)
    /\ Evaluated =>
          \E o \in Interp(src, canon.expr, <<>>) :
              /\ o.status = outcome.status
              /\ o.log = outcome.log
              /\ o.status = "value" => o.value.current = outcome.value.current

C2_AliasesInterchangeable ==
    SameAsCanonical(Canon(source), parse(Canon(source), Parser_new(Canon(source))))

\* the entry of the root node in the log of an evaluation
RootRoll == outcome.log[Len(outcome.log)]

\* the roll group of n samples: Direct entries separated by `+` tokens
IsGroupOf(items, outs) ==
    /\ Len(items) = 2 * Len(outs) - 1
    /\ \A i \in DOMAIN outs : items[2 * i - 1] = Direct(outs[i])
    /\ \A i \in 1 .. Len(outs) - 1 : items[2 * i] = Glyph("+")

\* C3: evaluating a roll whose quantity evaluates to N >= 1 and whose faces
\* evaluate to F >= 1 yields the sum T of the N samples, N <= T <= N*F, each
\* sample in 1..F, and the provenance Direct(T) followed by one Roll group
\* of the N samples in draw order separated by `+`; quantity and faces may
\* be sub-expressions: (1+1)d(3*2) rolls 2 dice of 6 faces.
C3_DiceInvariant ==
    (pc = "done" /\ parsed.expr.node = "Roll") =>
        /\ RootRoll.node = <<>>
        /\ parsed.expr.quantity.node = "Literal" =>
              RootRoll.n = parsed.expr.quantity.value.current
        /\ parsed.expr.faces.node = "Literal" =>
              RootRoll.f = parsed.expr.faces.value.current
        /\ source = <<"(", "1", "+", "1", ")", "d", "(", "3", "*", "2", ")">> =>
              RootRoll.n = 2 /\ RootRoll.f = 6
        /\ (RootRoll.n >= 1 /\ RootRoll.f >= 1) =>
              /\ Len(RootRoll.outs) = RootRoll.n
              /\ \A i \in DOMAIN RootRoll.outs : RootRoll.outs[i] \in 1 .. RootRoll.f
              /\ outcome.value.current = SumSeq(RootRoll.outs)
              /\ RootRoll.n <= outcome.value.current
              /\ outcome.value.current <= RootRoll.n * RootRoll.f
              /\ Len(outcome.value.all) = 2
              /\ outcome.value.all[1] = Direct(outcome.value.current)
              /\ outcome.value.all[2].kind = "Roll"
              /\ IsGroupOf(outcome.value.all[2].items, RootRoll.outs)

C3_Witness ==
    /\ pc = "done"
    /\ source = <<"(", "1", "+", "1", ")", "d", "(", "3", "*", "2", ")">>
    /\ RootRoll.outs = <<6, 1>>

\* sum of the samples all Roll nodes of an evaluation drew
RECURSIVE DiceDrawn(_)
DiceDrawn(log) == IF log = <<>> THEN 0 ELSE Len(log[1].outs) + DiceDrawn(Tail(log))

\* C6: unary minus applies to the roll: -1d6 draws one sample and is its
\* negation, in -6..-1; 2d6*3 is three times the roll's total and 2d6+1 the
\* roll's total plus one.
C6_MinusNegatesTheRoll ==
    /\ (source = <<"-", "1", "d", "6">> /\ Evaluated) =>
          /\ pc = "done"
          /\ DiceDrawn(outcome.log) = 1
          /\ outcome.value.current \in -6 .. -1
    /\ (source = <<"2", "d", "6", "*", "3">> /\ Evaluated) =>
          /\ pc = "done"
          /\ DiceDrawn(outcome.log) = 2
          /\ outcome.value.current = 3 * SumSeq(outcome.log[1].outs)
    /\ (source = <<"2", "d", "6", "+", "1">> /\ Evaluated) =>
          /\ pc = "done"
          /\ DiceDrawn(outcome.log) = 2
          /\ outcome.value.current = SumSeq(outcome.log[1].outs) + 1

\* C7: when the first token of the input is unrecognised the parser fails
\* in the token fetch of Parser::new: the error exists once the parser is
\* constructed, and no grammar rule raises it.
C7_FailsAtFirstFetch ==
    (Started /\ Tokens(source) # <<>> /\ Tokens(source)[1].ty = "Error") =>
        /\ parsed # NoResult
        /\ ~parsed.ok
        /\ parsed.err.rule \notin {"primary", "consume", "value", "parse"}

\* C9: an unmatched `(` is reported at the current token: the error's span
\* and `found` kind are those of the token found where `)` was expected.
C9_ReportedAtCurrent ==
    (pc = "parse_error" /\ parsed.err.rule = "consume") =>
        /\ parsed.err.expected = "RightParen"
        /\ parsed.err.span = parser.current.span
        /\ parsed.err.found = parser.current.ty

IsProperPrefix(q, p) == Len(q) < Len(p) /\ SubSeq(p, 1, Len(q)) = q

\* node p completes before node q in a post-order, left-to-right walk:
\* p lies below q, or in a subtree to the left of q's
PostOrderBefore(p, q) ==
    \/ IsProperPrefix(q, p)
    \/ \E i \in 1 .. Len(p) :
          /\ i <= Len(q)
          /\ SubSeq(p, 1, i - 1) = SubSeq(q, 1, i - 1)
          /\ p[i] < q[i]

RECURSIVE RollNodes(_, _)
\* the positions of the Roll nodes of a tree
RollNodes(e, path) ==
    CASE e.node = "Literal" -> {}
      [] e.node = "Unary" -> RollNodes(e.right, path \o <<1>>)
      [] e.node = "Grouping" -> RollNodes(e.expression, path \o <<1>>)
      [] e.node = "Binary" ->
            RollNodes(e.left, path \o <<1>>) \cup RollNodes(e.right, path \o <<2>>)
      [] e.node = "Roll" ->
            {path} \cup RollNodes(e.quantity, path \o <<1>>)
                   \cup RollNodes(e.faces, path \o <<2>>)

RECURSIVE Samples_of(_)
\* all the samples of an evaluation in the order the source gave them
Samples_of(log) == IF log = <<>> THEN <<>> ELSE log[1].outs \o Samples_of(Tail(log))

\* the Value returned is a function of the samples given: no two of the
\* outcomes have the same samples and different Values
SamplesDecide(outcomes) ==
    Cardinality({<<Samples_of(o.log), o.value>> : o \in {r \in outcomes : r.status = "value"}})
        = Cardinality({Samples_of(o.log) : o \in {r \in outcomes : r.status = "value"}})

IsChainedRoll(e) ==
    /\ e.node = "Roll"
    /\ e.faces.node = "Literal"
    /\ e.quantity.node = "Roll"
    /\ e.quantity.quantity.node = "Literal"
    /\ e.quantity.faces.node = "Literal"

IsSimple(e) ==
    \/ e.node = "Literal"
    \/ e.node = "Unary" /\ e.right.node = "Literal"
                        /\ lexeme(source, e.operator) = <<"-">>

SimpleValue(e) ==
    IF e.node = "Literal" THEN e.value.current ELSE -e.right.value.current

\* C10: evaluation rejects nothing.  A roll whose quantity is n <= 0 returns
\* current 0 with provenance Direct(0) and an empty Roll group and takes no
\* sample, whatever faces is; a roll with n >= 1 and faces <= 0 panics on the
\* empty sample range; a division by 0 panics.  No evaluation ends otherwise
\* than in a Value or a panic.
RollOutcomesAre(n, f, outcomes) ==
    /\ n <= 0 =>
          /\ outcomes =
                {Val(Value_new(0, <<Direct(0), RollGroup(<<>>)>>),
                     <<[node |-> <<>>, n |-> n, f |-> f, outs |-> <<>>]>>)}
          /\ Evaluated => outcome \in outcomes
    /\ (n >= 1 /\ f <= 0) =>
          /\ outcomes # {}
          /\ \A o \in outcomes : o.status = "panic" /\ o.log = <<>>
          /\ Evaluated => pc = "panicked"

AllPanic(outcomes) ==
    /\ outcomes # {}
    /\ \A o \in outcomes : o.status = "panic"
    /\ Evaluated => pc = "panicked"

C10_NonPositiveDice ==
    /\ Evaluated =>
          /\ outcome.status \in {"value", "panic"}
          /\ \A i \in DOMAIN outcome.log :
                /\ outcome.log[i].n <= 0 => outcome.log[i].outs = <<>>
                /\ outcome.log[i].n >= 1 => outcome.log[i].f >= 1
    /\ (pc \in {"parsed", "done", "panicked"}
            /\ parsed.expr.node = "Roll"
            /\ IsSimple(parsed.expr.quantity) /\ IsSimple(parsed.expr.faces)) =>
          RollOutcomesAre(SimpleValue(parsed.expr.quantity),
                          SimpleValue(parsed.expr.faces),
                          Interp(source, parsed.expr, <<>>))
    /\ (pc \in {"parsed", "done", "panicked"}
            /\ parsed.expr.node = "Binary"
            /\ lexeme(source, parsed.expr.operator) = <<"/">>
            /\ IsSimple(parsed.expr.left) /\ IsSimple(parsed.expr.right)
            /\ SimpleValue(parsed.expr.right) = 0) =>
          AllPanic(Interp(source, parsed.expr, <<>>))

C10_Witness ==
    /\ pc = "done"
    /\ source = <<"-", "1", "d", "0">>
    /\ outcome.value.current = 0
    /\ outcome.log[1].outs = <<>>

====
